---- MODULE Spec2Model ----
(***************************************************************************)
(* Model of op-challenger/game/fault/player.go: the GamePlayer that owns   *)
(* one fault dispute game, its constructor NewGamePlayer and its polling   *)
(* step ProgressGame.  The loader (GameInfo), the actor, the resource      *)
(* creator, the prestate validator and the responder constructor are       *)
(* external collaborators: their answers are inputs of the actions.        *)
(***************************************************************************)
EXTENDS Integers, Sequences, FiniteSets, TLC

\* Bound on the number of ProgressGame calls made on one player.
MaxCalls == 3

\* Addresses of the games for which the supervisor creates players.
Games == {"a1", "a2"}

\* The game whose player Spec follows.
Game1 == {"a1"}

\* gameTypes.GameStatus
GameStatusInProgress == "InProgress"
GameStatusChallengerWon == "ChallengerWon"
GameStatusDefenderWon == "DefenderWon"
GameStatus == {GameStatusInProgress, GameStatusChallengerWon, GameStatusDefenderWon}

\* error values: nil or some error
nil == "nil"

\* One log record: level and message.
Log(lvl, msg) == [lvl |-> lvl, msg |-> msg]

\* One external call made with a context; ctxDone tells whether the context
\* was already cancelled when the call was made.
Call(fn, ctxDone) == [fn |-> fn, ctxDone |-> ctxDone]

\* The answers of the environment to one NewGamePlayer call.
CtorEnv ==
    [contractErr : BOOLEAN, statusErr : BOOLEAN, status : GameStatus,
     depthErr : BOOLEAN, creatorErr : BOOLEAN, prestateErr : BOOLEAN,
     responderErr : BOOLEAN, agree : BOOLEAN]

\* The answers of the environment to one ProgressGame call.  cancelAt is the
\* index of the external call of this invocation during which (or, past the
\* last call made, after which) the caller's context is cancelled: 0 when it
\* never is.
ProgressEnv ==
    [actErr : BOOLEAN, statusErr : BOOLEAN, status : GameStatus,
     countErr : BOOLEAN, cancelAt : 0..3]

\* The context is already cancelled when the k-th external call is made.
CtxDone(env, k) == env.cancelAt # 0 /\ env.cancelAt < k

\* The act function stored in the player: the no-op closure of the resolved
\* fast path always returns nil, Agent.Act returns what the agent returns.
Act(act, env) ==
    IF act = "noop" THEN nil
    ELSE IF env.actErr THEN "act error" ELSE nil

\* The errors the stored act function can return.
ActResults(act) == {Act(act, env) : env \in ProgressEnv}

\* NewGamePlayer without the fast path for a game that is already resolved.
NewGamePlayer_NoFastPath(env) ==
    LET s1 == <<"NewFaultDisputeGameContract">>
        s2 == Append(s1, "GetStatus")
        s3 == Append(s2, "GetMaxGameDepth")
        s4 == Append(s3, "creator")
        s5 == Append(s4, "prestateValidator")
        s6 == Append(s5, "NewFaultResponder")
        s7 == Append(s6, "NewAgent")
    IN
    IF env.contractErr
    THEN [player |-> <<>>, steps |-> s1,
          err |-> "failed to create fault dispute game contract wrapper"]
    ELSE IF env.statusErr
    THEN [player |-> <<>>, steps |-> s2, err |-> "failed to fetch game status"]
    ELSE IF env.depthErr
    THEN [player |-> <<>>, steps |-> s3, err |-> "failed to fetch the game depth"]
    ELSE IF env.creatorErr
    THEN [player |-> <<>>, steps |-> s4, err |-> "failed to create trace provider"]
    ELSE IF env.prestateErr
    THEN [player |-> <<>>, steps |-> s5,
          err |-> "failed to validate absolute prestate"]
    ELSE IF env.responderErr
    THEN [player |-> <<>>, steps |-> s6, err |-> "failed to create the responder"]
    ELSE [player |-> <<[act |-> "agent",
                        agreeWithProposedOutput |-> env.agree,
                        status |-> env.status]>>,
          steps |-> s7, err |-> nil]

\* NewGamePlayer that drops the error of the prestate validator.
NewGamePlayer_IgnorePrestate(env) ==
    LET s1 == <<"NewFaultDisputeGameContract">>
        s2 == Append(s1, "GetStatus")
        s3 == Append(s2, "GetMaxGameDepth")
        s4 == Append(s3, "creator")
        s5 == Append(s4, "prestateValidator")
        s6 == Append(s5, "NewFaultResponder")
        s7 == Append(s6, "NewAgent")
    IN
    IF env.contractErr
    THEN [player |-> <<>>, steps |-> s1,
          err |-> "failed to create fault dispute game contract wrapper"]
    ELSE IF env.statusErr
    THEN [player |-> <<>>, steps |-> s2, err |-> "failed to fetch game status"]
    ELSE IF env.status # GameStatusInProgress
    THEN [player |-> <<[act |-> "noop",
                        agreeWithProposedOutput |-> env.agree,
                        status |-> env.status]>>,
          steps |-> s2, err |-> nil]
    ELSE IF env.depthErr
    THEN [player |-> <<>>, steps |-> s3, err |-> "failed to fetch the game depth"]
    ELSE IF env.creatorErr
    THEN [player |-> <<>>, steps |-> s4, err |-> "failed to create trace provider"]
    ELSE IF env.responderErr
    THEN [player |-> <<>>, steps |-> s6, err |-> "failed to create the responder"]
    ELSE [player |-> <<[act |-> "agent",
                        agreeWithProposedOutput |-> env.agree,
                        status |-> env.status]>>,
          steps |-> s7, err |-> nil]

NewGamePlayer(env) ==
    LET s1 == <<"NewFaultDisputeGameContract">>
        s2 == Append(s1, "GetStatus")
        s3 == Append(s2, "GetMaxGameDepth")
        s4 == Append(s3, "creator")
        s5 == Append(s4, "prestateValidator")
        s6 == Append(s5, "NewFaultResponder")
        s7 == Append(s6, "NewAgent")
    IN
    IF env.contractErr
    THEN [player |-> <<>>, steps |-> s1,
          err |-> "failed to create fault dispute game contract wrapper"]
    ELSE IF env.statusErr
    THEN [player |-> <<>>, steps |-> s2, err |-> "failed to fetch game status"]
    ELSE IF env.status # GameStatusInProgress
    THEN [player |-> <<[act |-> "noop",
                        agreeWithProposedOutput |-> env.agree,
                        status |-> env.status]>>,
          steps |-> s2, err |-> nil]
    ELSE IF env.depthErr
    THEN [player |-> <<>>, steps |-> s3, err |-> "failed to fetch the game depth"]
    ELSE IF env.creatorErr
    THEN [player |-> <<>>, steps |-> s4, err |-> "failed to create trace provider"]
    ELSE IF env.prestateErr
    THEN [player |-> <<>>, steps |-> s5,
          err |-> "failed to validate absolute prestate"]
    ELSE IF env.responderErr
    THEN [player |-> <<>>, steps |-> s6, err |-> "failed to create the responder"]
    ELSE [player |-> <<[act |-> "agent",
                        agreeWithProposedOutput |-> env.agree,
                        status |-> env.status]>>,
          steps |-> s7, err |-> nil]

Status(g) == g.status

\* logGameStatus with the expected status of the two stances exchanged.
logGameStatus_Swapped(g, status, env, k) ==
    IF status = GameStatusInProgress
    THEN IF env.countErr
         THEN [calls |-> <<Call("GetClaimCount", CtxDone(env, k))>>,
               logs |-> <<Log("Error", "Failed to get claim count for in progress game")>>]
         ELSE [calls |-> <<Call("GetClaimCount", CtxDone(env, k))>>,
               logs |-> <<Log("Info", "Game info")>>]
    ELSE LET expectedStatus == IF g.agreeWithProposedOutput
                               THEN GameStatusDefenderWon
                               ELSE GameStatusChallengerWon
         IN IF expectedStatus = status
            THEN [calls |-> <<>>, logs |-> <<Log("Info", "Game won")>>]
            ELSE [calls |-> <<>>, logs |-> <<Log("Error", "Game lost")>>]

\* logGameStatus that drops a GetClaimCount failure without logging it.
logGameStatus_Silent(g, status, env, k) ==
    IF status = GameStatusInProgress
    THEN IF env.countErr
         THEN [calls |-> <<Call("GetClaimCount", CtxDone(env, k))>>,
               logs |-> <<>>]
         ELSE [calls |-> <<Call("GetClaimCount", CtxDone(env, k))>>,
               logs |-> <<Log("Info", "Game info")>>]
    ELSE LET expectedStatus == IF g.agreeWithProposedOutput
                               THEN GameStatusChallengerWon
                               ELSE GameStatusDefenderWon
         IN IF expectedStatus = status
            THEN [calls |-> <<>>, logs |-> <<Log("Info", "Game won")>>]
            ELSE [calls |-> <<>>, logs |-> <<Log("Error", "Game lost")>>]

\* logGameStatus that fetches the claim count before it looks at the status.
logGameStatus_AlwaysCounts(g, status, env, k) ==
    LET count == <<Call("GetClaimCount", CtxDone(env, k))>>
    IN
    IF env.countErr
    THEN [calls |-> count,
          logs |-> <<Log("Error", "Failed to get claim count for in progress game")>>]
    ELSE IF status = GameStatusInProgress
    THEN [calls |-> count, logs |-> <<Log("Info", "Game info")>>]
    ELSE LET expectedStatus == IF g.agreeWithProposedOutput
                               THEN GameStatusChallengerWon
                               ELSE GameStatusDefenderWon
         IN IF expectedStatus = status
            THEN [calls |-> count, logs |-> <<Log("Info", "Game won")>>]
            ELSE [calls |-> count, logs |-> <<Log("Error", "Game lost")>>]

\* logGameStatus: the loader calls it makes and the records it logs.
\* k is the index its first external call has within the ProgressGame call.
logGameStatus(g, status, env, k) ==
    IF status = GameStatusInProgress
    THEN IF env.countErr
         THEN [calls |-> <<Call("GetClaimCount", CtxDone(env, k))>>,
               logs |-> <<Log("Error", "Failed to get claim count for in progress game")>>]
         ELSE [calls |-> <<Call("GetClaimCount", CtxDone(env, k))>>,
               logs |-> <<Log("Info", "Game info")>>]
    ELSE LET expectedStatus == IF g.agreeWithProposedOutput
                               THEN GameStatusChallengerWon
                               ELSE GameStatusDefenderWon
         IN IF expectedStatus = status
            THEN [calls |-> <<>>, logs |-> <<Log("Info", "Game won")>>]
            ELSE [calls |-> <<>>, logs |-> <<Log("Error", "Game lost")>>]

\* ProgressGame without the check for a completed game.
ProgressGame_NoSkip(g, env) ==
    LET l1 == <<Log("Trace", "Checking if actions are required")>>
        c1 == <<Call("act", CtxDone(env, 1))>>
        l2 == IF Act(g.act, env) # nil
              THEN Append(l1, Log("Error", "Error when acting on game"))
              ELSE l1
        c2 == Append(c1, Call("GetStatus", CtxDone(env, 2)))
    IN
    IF env.statusErr
    THEN [player |-> g, ret |-> GameStatusInProgress, calls |-> c2,
          logs |-> Append(l2, Log("Warn", "Unable to retrieve game status"))]
    ELSE
    LET lg == logGameStatus(g, env.status, env, 3)
    IN [player |-> [g EXCEPT !.status = env.status], ret |-> env.status,
        calls |-> c2 \o lg.calls, logs |-> l2 \o lg.logs]

\* ProgressGame that drops the error of GetStatus and uses the status that
\* came with it.
ProgressGame_IgnoreStatusErr(g, env) ==
    IF g.status # GameStatusInProgress
    THEN [player |-> g, ret |-> g.status, calls |-> <<>>,
          logs |-> <<Log("Trace", "Skipping completed game")>>]
    ELSE
    LET l1 == <<Log("Trace", "Checking if actions are required")>>
        c1 == <<Call("act", CtxDone(env, 1))>>
        l2 == IF Act(g.act, env) # nil
              THEN Append(l1, Log("Error", "Error when acting on game"))
              ELSE l1
        c2 == Append(c1, Call("GetStatus", CtxDone(env, 2)))
        lg == logGameStatus(g, env.status, env, 3)
    IN [player |-> [g EXCEPT !.status = env.status], ret |-> env.status,
        calls |-> c2 \o lg.calls, logs |-> l2 \o lg.logs]

\* ProgressGame that returns as soon as act fails.
ProgressGame_AbortOnActErr(g, env) ==
    IF g.status # GameStatusInProgress
    THEN [player |-> g, ret |-> g.status, calls |-> <<>>,
          logs |-> <<Log("Trace", "Skipping completed game")>>]
    ELSE
    LET l1 == <<Log("Trace", "Checking if actions are required")>>
        c1 == <<Call("act", CtxDone(env, 1))>>
        c2 == Append(c1, Call("GetStatus", CtxDone(env, 2)))
    IN
    IF Act(g.act, env) # nil
    THEN [player |-> g, ret |-> g.status, calls |-> c1,
          logs |-> Append(l1, Log("Error", "Error when acting on game"))]
    ELSE IF env.statusErr
    THEN [player |-> g, ret |-> GameStatusInProgress, calls |-> c2,
          logs |-> Append(l1, Log("Warn", "Unable to retrieve game status"))]
    ELSE
    LET lg == logGameStatus(g, env.status, env, 3)
    IN [player |-> [g EXCEPT !.status = env.status], ret |-> env.status,
        calls |-> c2 \o lg.calls, logs |-> l1 \o lg.logs]

\* ProgressGame that calls the loader with a fresh context instead of the
\* caller's.
ProgressGame_FreshCtx(g, env) ==
    IF g.status # GameStatusInProgress
    THEN [player |-> g, ret |-> g.status, calls |-> <<>>,
          logs |-> <<Log("Trace", "Skipping completed game")>>]
    ELSE
    LET l1 == <<Log("Trace", "Checking if actions are required")>>
        c1 == <<Call("act", CtxDone(env, 1))>>
        l2 == IF Act(g.act, env) # nil
              THEN Append(l1, Log("Error", "Error when acting on game"))
              ELSE l1
        c2 == Append(c1, Call("GetStatus", FALSE))
    IN
    IF env.statusErr
    THEN [player |-> g, ret |-> GameStatusInProgress, calls |-> c2,
          logs |-> Append(l2, Log("Warn", "Unable to retrieve game status"))]
    ELSE
    LET lg == logGameStatus(g, env.status, env, 3)
    IN [player |-> [g EXCEPT !.status = env.status], ret |-> env.status,
        calls |-> c2 \o lg.calls, logs |-> l2 \o lg.logs]

\* ProgressGame that returns the fetched status without storing it.
ProgressGame_NoStore(g, env) ==
    IF g.status # GameStatusInProgress
    THEN [player |-> g, ret |-> g.status, calls |-> <<>>,
          logs |-> <<Log("Trace", "Skipping completed game")>>]
    ELSE
    LET l1 == <<Log("Trace", "Checking if actions are required")>>
        c1 == <<Call("act", CtxDone(env, 1))>>
        l2 == IF Act(g.act, env) # nil
              THEN Append(l1, Log("Error", "Error when acting on game"))
              ELSE l1
        c2 == Append(c1, Call("GetStatus", CtxDone(env, 2)))
    IN
    IF env.statusErr
    THEN [player |-> g, ret |-> GameStatusInProgress, calls |-> c2,
          logs |-> Append(l2, Log("Warn", "Unable to retrieve game status"))]
    ELSE
    LET lg == logGameStatus(g, env.status, env, 3)
    IN [player |-> g, ret |-> env.status,
        calls |-> c2 \o lg.calls, logs |-> l2 \o lg.logs]

\* ProgressGame that takes only DefenderWon for a completed game.
ProgressGame_SkipsOnlyDefenderWon(g, env) ==
    IF g.status = GameStatusDefenderWon
    THEN [player |-> g, ret |-> g.status, calls |-> <<>>,
          logs |-> <<Log("Trace", "Skipping completed game")>>]
    ELSE
    LET l1 == <<Log("Trace", "Checking if actions are required")>>
        c1 == <<Call("act", CtxDone(env, 1))>>
        l2 == IF Act(g.act, env) # nil
              THEN Append(l1, Log("Error", "Error when acting on game"))
              ELSE l1
        c2 == Append(c1, Call("GetStatus", CtxDone(env, 2)))
    IN
    IF env.statusErr
    THEN [player |-> g, ret |-> GameStatusInProgress, calls |-> c2,
          logs |-> Append(l2, Log("Warn", "Unable to retrieve game status"))]
    ELSE
    LET lg == logGameStatus(g, env.status, env, 3)
    IN [player |-> [g EXCEPT !.status = env.status], ret |-> env.status,
        calls |-> c2 \o lg.calls, logs |-> l2 \o lg.logs]

ProgressGame(g, env) ==
    IF g.status # GameStatusInProgress
    THEN [player |-> g, ret |-> g.status, calls |-> <<>>,
          logs |-> <<Log("Trace", "Skipping completed game")>>]
    ELSE
    LET l1 == <<Log("Trace", "Checking if actions are required")>>
        c1 == <<Call("act", CtxDone(env, 1))>>
        l2 == IF Act(g.act, env) # nil
              THEN Append(l1, Log("Error", "Error when acting on game"))
              ELSE l1
        c2 == Append(c1, Call("GetStatus", CtxDone(env, 2)))
    IN
    IF env.statusErr
    THEN [player |-> g, ret |-> GameStatusInProgress, calls |-> c2,
          logs |-> Append(l2, Log("Warn", "Unable to retrieve game status"))]
    ELSE
    LET lg == logGameStatus(g, env.status, env, 3)
    IN [player |-> [g EXCEPT !.status = env.status], ret |-> env.status,
        calls |-> c2 \o lg.calls, logs |-> l2 \o lg.logs]

----
\* The agent (Agent.Act), the claim tree it reads and the ledger it moves on.

\* Depth of the game tree (GetMaxGameDepth) and bound on the number of claims
\* on the ledger.
MaxGameDepth == 2
MaxClaims == 3

\* Trace values.
Values == {0, 1}

\* Depth of a position: floor(log2(position)).
RECURSIVE Depth(_)
Depth(position) == IF position <= 1 THEN 0 ELSE 1 + Depth(position \div 2)

\* Child positions: the attack and the defend direction.
AttackPosition(position) == 2 * position
DefendPosition(position) == 2 * position + 1

\* Trace Accessor: the canonical value at a position.
TraceValue(position) == position % 2

Claim(position, value, parent, byAgent) ==
    [position |-> position, value |-> value, parent |-> parent,
     byAgent |-> byAgent, steppedByAgent |-> FALSE]

\* The root claim: the proposed output, made by the proposer.
RootClaim(value) == Claim(1, value, 0, FALSE)

\* The claim has a child claim in the tree.
HasChild(tree, i) == \E j \in 1..Len(tree) : tree[j].parent = i

\* The check that only looks at the steps the agent executed and overlooks
\* the claims it made.
CounteredByAgent_StepsOnly(tree, i) == tree[i].steppedByAgent

\* The agent already moved against the claim: it made a child claim of it or
\* executed a step against it.
CounteredByAgent(tree, i) ==
    \/ tree[i].steppedByAgent
    \/ \E j \in 1..Len(tree) : tree[j].parent = i /\ tree[j].byAgent

\* The answers of the collaborators to one Agent.Act call: the claim list
\* cannot be loaded, or the trace accessor, the oracle updater or the
\* responder fails for the claims in fail.
AgentEnvs ==
    [loadErr : BOOLEAN, kind : {"trace", "oracle", "responder"},
     fail : SUBSET (1..MaxClaims)]

NoFailure == [loadErr |-> FALSE, kind |-> "trace", fail |-> {}]

\* The answers followed: no failure, a failure to load the claim list, or a
\* failure of one collaborator for one claim of the cycle.
AgentEnv ==
    {NoFailure, [NoFailure EXCEPT !.loadErr = TRUE]} \cup
    {[loadErr |-> FALSE, kind |-> k, fail |-> {i}] :
        k \in {"trace", "oracle", "responder"}, i \in 1..MaxClaims}

\* The answers of the loader followed together with the agent, whose Act
\* returns an error or not: the status and the claim count are fetched without
\* failure and the context is never cancelled.
AgentProgressEnv(actErr) ==
    [actErr : {actErr}, statusErr : {FALSE}, status : GameStatus,
     countErr : {FALSE}, cancelAt : {0}]

Failing(aenv, kind, i) == aenv.kind = kind /\ i \in aenv.fail

\* A call of the trace accessor, the oracle updater or the loader.
Event(ev, claim, position, ok) ==
    [ev |-> ev, claim |-> claim, position |-> position, ok |-> ok]

\* A call of the responder: Attack, Defend or Step against a claim, with the
\* trace value the move carries; ok tells whether the move was accepted.
Move(ev, claim, position, value, isAttack, ok) ==
    [ev |-> ev, claim |-> claim, position |-> position, ok |-> ok,
     value |-> value, isAttack |-> isAttack]

IsMove(e) == e.ev \in {"Attack", "Defend", "Step"}

\* The response that bisects at every depth and never executes a step.
Respond_BisectsLeaf(tree, aenv, i) ==
    LET c == tree[i]
        agree == TraceValue(c.position) = c.value
        get == <<Event("GetValue", i, c.position, ~Failing(aenv, "trace", i))>>
        sent == ~Failing(aenv, "responder", i)
    IN
    IF CounteredByAgent(tree, i)
    THEN [events |-> <<>>, failed |-> FALSE]
    ELSE IF Failing(aenv, "trace", i)
    THEN [events |-> get, failed |-> TRUE]
    ELSE IF Depth(c.position) > MaxGameDepth
    THEN IF Failing(aenv, "oracle", i)
         THEN [events |-> Append(get, Event("Publish", i, c.position, FALSE)),
               failed |-> TRUE]
         ELSE [events |-> get \o
                  <<Event("Publish", i, c.position, TRUE),
                    Move("Step", i, c.position, TraceValue(c.position),
                         ~agree, sent)>>,
               failed |-> ~sent]
    ELSE IF ~agree
    THEN [events |-> Append(get,
              Move("Attack", i, AttackPosition(c.position),
                   TraceValue(AttackPosition(c.position)), TRUE, sent)),
          failed |-> ~sent]
    ELSE IF ~HasChild(tree, i)
    THEN [events |-> Append(get,
              Move("Defend", i, DefendPosition(c.position),
                   TraceValue(DefendPosition(c.position)), FALSE, sent)),
          failed |-> ~sent]
    ELSE [events |-> get, failed |-> FALSE]

\* The response that attacks whether it agrees with the claim or not.
Respond_AlwaysAttacks(tree, aenv, i) ==
    LET c == tree[i]
        agree == TraceValue(c.position) = c.value
        get == <<Event("GetValue", i, c.position, ~Failing(aenv, "trace", i))>>
        sent == ~Failing(aenv, "responder", i)
    IN
    IF CounteredByAgent(tree, i)
    THEN [events |-> <<>>, failed |-> FALSE]
    ELSE IF Failing(aenv, "trace", i)
    THEN [events |-> get, failed |-> TRUE]
    ELSE IF Depth(c.position) = MaxGameDepth
    THEN IF Failing(aenv, "oracle", i)
         THEN [events |-> Append(get, Event("Publish", i, c.position, FALSE)),
               failed |-> TRUE]
         ELSE [events |-> get \o
                  <<Event("Publish", i, c.position, TRUE),
                    Move("Step", i, c.position, TraceValue(c.position),
                         ~agree, sent)>>,
               failed |-> ~sent]
    ELSE IF agree \/ ~agree
    THEN [events |-> Append(get,
              Move("Attack", i, AttackPosition(c.position),
                   TraceValue(AttackPosition(c.position)), TRUE, sent)),
          failed |-> ~sent]
    ELSE IF ~HasChild(tree, i)
    THEN [events |-> Append(get,
              Move("Defend", i, DefendPosition(c.position),
                   TraceValue(DefendPosition(c.position)), FALSE, sent)),
          failed |-> ~sent]
    ELSE [events |-> get, failed |-> FALSE]

\* The response of the agent to claim i of the tree: the calls it makes, in
\* order, the last of them the move it hands to the responder, if any.
Respond(tree, aenv, i) ==
    LET c == tree[i]
        agree == TraceValue(c.position) = c.value
        get == <<Event("GetValue", i, c.position, ~Failing(aenv, "trace", i))>>
        sent == ~Failing(aenv, "responder", i)
    IN
    IF CounteredByAgent(tree, i)
    THEN [events |-> <<>>, failed |-> FALSE]
    ELSE IF Failing(aenv, "trace", i)
    THEN [events |-> get, failed |-> TRUE]
    ELSE IF Depth(c.position) = MaxGameDepth
    THEN IF Failing(aenv, "oracle", i)
         THEN [events |-> Append(get, Event("Publish", i, c.position, FALSE)),
               failed |-> TRUE]
         ELSE [events |-> get \o
                  <<Event("Publish", i, c.position, TRUE),
                    Move("Step", i, c.position, TraceValue(c.position),
                         ~agree, sent)>>,
               failed |-> ~sent]
    ELSE IF ~agree
    THEN [events |-> Append(get,
              Move("Attack", i, AttackPosition(c.position),
                   TraceValue(AttackPosition(c.position)), TRUE, sent)),
          failed |-> ~sent]
    ELSE IF ~HasChild(tree, i)
    THEN [events |-> Append(get,
              Move("Defend", i, DefendPosition(c.position),
                   TraceValue(DefendPosition(c.position)), FALSE, sent)),
          failed |-> ~sent]
    ELSE [events |-> get, failed |-> FALSE]

\* The calls of one response followed by those of the later responses.
Join(r, rest) ==
    [events |-> r.events \o rest.events, failed |-> r.failed \/ rest.failed]

\* The responses to the claims i..Len(tree) of the tree snapshot, in order.
RECURSIVE RespondFrom(_, _, _)
RespondFrom(tree, aenv, i) ==
    IF i > Len(tree)
    THEN [events |-> <<>>, failed |-> FALSE]
    ELSE Join(Respond(tree, aenv, i), RespondFrom(tree, aenv, i + 1))

\* One polling cycle of the agent on a fresh snapshot of the ledger's claims.
AgentAct(tree, aenv) ==
    IF aenv.loadErr
    THEN [events |-> <<Event("GetClaimList", 0, 0, FALSE)>>, err |-> "act error"]
    ELSE LET r == RespondFrom(tree, aenv, 1)
         IN [events |-> <<Event("GetClaimList", 0, 0, TRUE)>> \o r.events,
             err |-> IF r.failed THEN "act error" ELSE nil]

\* The ledger after the calls es[k..]: an accepted Attack or Defend adds the
\* agent's claim, an accepted Step is recorded on the claim it counters.
Accept(list, e) ==
    IF ~(IsMove(e) /\ e.ok) THEN list
    ELSE IF e.ev = "Step"
    THEN [list EXCEPT ![e.claim].steppedByAgent = TRUE]
    ELSE Append(list, Claim(e.position, e.value, e.claim, TRUE))

RECURSIVE Apply(_, _, _)
Apply(list, es, k) ==
    IF k > Len(es) THEN list ELSE Apply(Accept(list, es[k]), es, k + 1)

\* The claims for which one of the calls es failed.
FailedIn(es) == {es[k].claim : k \in {j \in 1..Len(es) : ~es[j].ok}} \ {0}

\* Number of accepted moves against claim i among the calls es.
AcceptedIn(es, i) ==
    Cardinality({k \in 1..Len(es) : IsMove(es[k]) /\ es[k].ok /\ es[k].claim = i})

----
\* State.
\*   players   the GamePlayer objects, by game address
\*   last      the last operation executed: its inputs and what it did
\*   progressCalls  number of ProgressGame calls made on each player
\*   actCalls  number of times each player's act was invoked
\*   termSeen  a GetStatus call for the game succeeded with a status
\*             other than InProgress
\*   changes   number of times each player's cached status changed value
\*   outcomes  number of win/loss records logged for each player
VARIABLES players, last, progressCalls, actCalls, termSeen, changes, outcomes

\* State of the game the agent plays (the agent of the player of game "a1").
\*   claimList  the claims on the ledger, in the ledger's order
\*   accepted   number of moves of the agent the ledger accepted, per
\*              countered claim (index into claimList)
\*   failedOn   the claims for which a call the agent made in response to
\*              them failed in some cycle
\*   lastAct    the calls Agent.Act made, in order, if the last step was a
\*              ProgressGame call that invoked it; empty otherwise
VARIABLES claimList, accepted, failedOn, lastAct

agentVars == <<claimList, accepted, failedOn, lastAct>>

vars == <<players, last, progressCalls, actCalls, termSeen, changes, outcomes,
          claimList, accepted, failedOn, lastAct>>

NoOp == [op |-> "none"]

\* No player is constructed yet; the ledger holds the root claim of value v.
InitWith(v) ==
    /\ players = <<>>
    /\ last = NoOp
    /\ progressCalls = [a \in Games |-> 0]
    /\ actCalls = [a \in Games |-> 0]
    /\ termSeen = [a \in Games |-> FALSE]
    /\ changes = [a \in Games |-> 0]
    /\ outcomes = [a \in Games |-> 0]
    /\ claimList = <<RootClaim(v)>>
    /\ accepted = [i \in 1..MaxClaims |-> 0]
    /\ failedOn = {}
    /\ lastAct = <<>>

Init == InitWith(0)

\* The proposed output may or may not be the canonical one.
InitAgent == \E v \in Values : InitWith(v)

\* Number of invocations of g.act among the calls of one ProgressGame.
NumActCalls(calls) == Cardinality({i \in 1..Len(calls) : calls[i].fn = "act"})

\* Number of win/loss records among the records logged by one ProgressGame.
NumOutcomeLogs(logs) ==
    Cardinality({i \in 1..Len(logs) : logs[i].msg \in {"Game won", "Game lost"}})

\* The supervisor constructs the player of game addr.
DoNewGamePlayer(addr, env) ==
    /\ addr \notin DOMAIN players
    /\ LET r == NewGamePlayer(env)
       IN /\ players' = IF r.player = <<>> THEN players
                        ELSE [a \in DOMAIN players \cup {addr} |->
                                IF a = addr THEN r.player[1] ELSE players[a]]
          /\ last' = [op |-> "NewGamePlayer", addr |-> addr, env |-> env,
                      player |-> r.player, steps |-> r.steps, err |-> r.err]
          /\ termSeen' = [termSeen EXCEPT ![addr] =
                            @ \/ ("GetStatus" \in {r.steps[i] : i \in 1..Len(r.steps)}
                                  /\ ~env.statusErr
                                  /\ env.status # GameStatusInProgress)]
    /\ UNCHANGED <<progressCalls, actCalls, changes, outcomes>>
    /\ UNCHANGED agentVars

\* ProgressGame on a status that all players share (a package-level status
\* instead of the field of the GamePlayer).
DoProgressGame_SharedStatus(addr, env) ==
    /\ addr \in DOMAIN players
    /\ progressCalls[addr] < MaxCalls
    /\ LET g == players[addr]
           r == ProgressGame(g, env)
           fetched == \E i \in 1..Len(r.calls) : r.calls[i].fn = "GetStatus"
       IN /\ players' = [a \in DOMAIN players |->
                            [players[a] EXCEPT !.status = r.player.status]]
          /\ last' = [op |-> "ProgressGame", addr |-> addr, env |-> env,
                      pre |-> g, ret |-> r.ret, calls |-> r.calls,
                      logs |-> r.logs]
          /\ actCalls' = [actCalls EXCEPT ![addr] = @ + NumActCalls(r.calls)]
          /\ termSeen' = [termSeen EXCEPT ![addr] =
                            @ \/ (fetched /\ ~env.statusErr
                                  /\ env.status # GameStatusInProgress)]
          /\ changes' = [changes EXCEPT ![addr] =
                            IF r.player.status # g.status THEN @ + 1 ELSE @]
          /\ outcomes' = [outcomes EXCEPT ![addr] = @ + NumOutcomeLogs(r.logs)]
    /\ progressCalls' = [progressCalls EXCEPT ![addr] = @ + 1]
    /\ UNCHANGED agentVars

\* The scheduler calls ProgressGame on the player of game addr.
DoProgressGame(addr, env) ==
    /\ addr \in DOMAIN players
    /\ progressCalls[addr] < MaxCalls
    /\ LET g == players[addr]
           r == ProgressGame(g, env)
           fetched == \E i \in 1..Len(r.calls) : r.calls[i].fn = "GetStatus"
       IN /\ players' = [players EXCEPT ![addr] = r.player]
          /\ last' = [op |-> "ProgressGame", addr |-> addr, env |-> env,
                      pre |-> g, ret |-> r.ret, calls |-> r.calls,
                      logs |-> r.logs]
          /\ actCalls' = [actCalls EXCEPT ![addr] = @ + NumActCalls(r.calls)]
          /\ termSeen' = [termSeen EXCEPT ![addr] =
                            @ \/ (fetched /\ ~env.statusErr
                                  /\ env.status # GameStatusInProgress)]
          /\ changes' = [changes EXCEPT ![addr] =
                            IF r.player.status # g.status THEN @ + 1 ELSE @]
          /\ outcomes' = [outcomes EXCEPT ![addr] = @ + NumOutcomeLogs(r.logs)]
    /\ progressCalls' = [progressCalls EXCEPT ![addr] = @ + 1]
    /\ UNCHANGED agentVars

\* The player's part of a ProgressGame call on the player of game addr.
ProgressPlayer(addr, env) ==
    LET g == players[addr]
        r == ProgressGame(g, env)
        fetched == \E i \in 1..Len(r.calls) : r.calls[i].fn = "GetStatus"
    IN /\ players' = [players EXCEPT ![addr] = r.player]
       /\ last' = [op |-> "ProgressGame", addr |-> addr, env |-> env,
                   pre |-> g, ret |-> r.ret, calls |-> r.calls,
                   logs |-> r.logs]
       /\ actCalls' = [actCalls EXCEPT ![addr] = @ + NumActCalls(r.calls)]
       /\ termSeen' = [termSeen EXCEPT ![addr] =
                         @ \/ (fetched /\ ~env.statusErr
                               /\ env.status # GameStatusInProgress)]
       /\ changes' = [changes EXCEPT ![addr] =
                         IF r.player.status # g.status THEN @ + 1 ELSE @]
       /\ outcomes' = [outcomes EXCEPT ![addr] = @ + NumOutcomeLogs(r.logs)]
       /\ progressCalls' = [progressCalls EXCEPT ![addr] = @ + 1]

\* ProgressGame invokes act on player g (whatever the loader answers).
Acts(g) == NumActCalls(ProgressGame(g, CHOOSE env \in ProgressEnv : TRUE).calls) = 1

\* The scheduler calls ProgressGame on the player of game addr, whose act is
\* Agent.Act on the ledger: the player's part is that of DoProgressGame, and
\* act, when it is invoked, runs one polling cycle of the agent, whose error
\* is the error act returns.
DoAgentProgressGame(addr, aenv) ==
    /\ addr \in DOMAIN players
    /\ progressCalls[addr] < MaxCalls
    /\ aenv.fail \subseteq 1..Len(claimList)
    /\ IF Acts(players[addr]) /\ players[addr].act = "agent"
       THEN \E a \in {AgentAct(claimList, aenv)} :
            \E list \in {Apply(claimList, a.events, 1)} :
               /\ Len(list) <= MaxClaims
               /\ claimList' = list
               /\ accepted' = [i \in 1..MaxClaims |->
                                  accepted[i] + AcceptedIn(a.events, i)]
               /\ failedOn' = failedOn \cup FailedIn(a.events)
               /\ lastAct' = a.events
               /\ \E env \in AgentProgressEnv(a.err # nil) :
                     ProgressPlayer(addr, env)
       ELSE /\ aenv = NoFailure
            /\ UNCHANGED <<claimList, accepted, failedOn>>
            /\ lastAct' = <<>>
            /\ \E env \in AgentProgressEnv(FALSE) : ProgressPlayer(addr, env)

\* Another participant counters claim i of the ledger with a claim of its own.
DoOtherMove(i, value, isAttack) ==
    /\ i \in 1..Len(claimList)
    /\ Len(claimList) < MaxClaims
    /\ Depth(claimList[i].position) < MaxGameDepth
    /\ claimList' = Append(claimList,
          Claim(IF isAttack THEN AttackPosition(claimList[i].position)
                ELSE DefendPosition(claimList[i].position),
                value, i, FALSE))
    /\ last' = [op |-> "OtherMove", claim |-> i]
    /\ lastAct' = <<>>
    /\ UNCHANGED <<players, progressCalls, actCalls, termSeen, changes,
                   outcomes, accepted, failedOn>>

\* The lifecycle of one player: construction (retried by the supervisor
\* while it fails), then repeated ProgressGame calls.
Next ==
    \/ \E addr \in Game1, env \in CtorEnv : DoNewGamePlayer(addr, env)
    \/ \E addr \in Game1, env \in ProgressEnv : DoProgressGame(addr, env)

Spec == Init /\ [][Next]_vars

\* The answers of the environment when two players are followed: every
\* construction step succeeds, GetClaimCount succeeds and the context is never
\* cancelled.
PlayersCtorEnv ==
    [contractErr : {FALSE}, statusErr : {FALSE}, status : GameStatus,
     depthErr : {FALSE}, creatorErr : {FALSE}, prestateErr : {FALSE},
     responderErr : {FALSE}, agree : BOOLEAN]

PlayersProgressEnv ==
    [actErr : BOOLEAN, statusErr : BOOLEAN, status : GameStatus,
     countErr : {FALSE}, cancelAt : {0}]

\* Two players, one per game, constructed and progressed in any interleaving.
NextPlayers ==
    \/ \E addr \in Games, env \in PlayersCtorEnv : DoNewGamePlayer(addr, env)
    \/ \E addr \in Games, env \in PlayersProgressEnv : DoProgressGame(addr, env)

SpecPlayers == Init /\ [][NextPlayers]_vars

\* One player together with its agent and the ledger of its game, on which
\* other participants move too.
NextAgent ==
    \/ \E addr \in Game1, env \in PlayersCtorEnv : DoNewGamePlayer(addr, env)
    \/ \E addr \in Game1, aenv \in AgentEnv : DoAgentProgressGame(addr, aenv)
    \/ \E i \in 1..MaxClaims, value \in Values, isAttack \in BOOLEAN :
          DoOtherMove(i, value, isAttack)

SpecAgent == InitAgent /\ [][NextAgent]_vars

----
\* Helpers of the properties.

\* The names of the functions called, in call order.
Fns(calls) == [i \in 1..Len(calls) |-> calls[i].fn]

\* The elements of a sequence.
Range(s) == {s[i] : i \in 1..Len(s)}

LastIsProgress == last.op = "ProgressGame"
LastIsCtor == last.op = "NewGamePlayer"

\* The last operation was a ProgressGame call on a player whose cached
\* status was InProgress.
LastProgressActive == LastIsProgress /\ last.pre.status = GameStatusInProgress

\* C1: a ProgressGame call on a player whose cached status is not InProgress
\* is a no-op: it makes no external call (no act, no GetStatus, no
\* GetClaimCount), leaves the player as it was and returns the cached status.
C1_TerminalProgressIsNoOp ==
    (LastIsProgress /\ last.pre.status # GameStatusInProgress) =>
        /\ last.calls = <<>>
        /\ players[last.addr] = last.pre
        /\ Status(players[last.addr]) = last.pre.status
        /\ last.ret = last.pre.status

\* A completed player was progressed while the loader would have answered
\* with another status.
C1_Witness ==
    /\ LastIsProgress
    /\ last.pre.status = GameStatusDefenderWon
    /\ ~last.env.statusErr
    /\ last.env.status = GameStatusInProgress

\* C2: when the cached status is InProgress and GetStatus fails, ProgressGame
\* returns InProgress, the cached status stays InProgress and no win or loss
\* is logged, whatever act returned and whatever status came with the error.
C2_StatusFailureKeepsInProgress ==
    (LastProgressActive /\ last.env.statusErr) =>
        /\ "GetStatus" \in Range(Fns(last.calls))
        /\ last.ret = GameStatusInProgress
        /\ Status(players[last.addr]) = GameStatusInProgress
        /\ NumOutcomeLogs(last.logs) = 0

\* GetStatus failed in a call in which act failed too.
C2_Witness ==
    /\ LastProgressActive
    /\ last.env.statusErr
    /\ last.env.actErr
    /\ last.env.status = GameStatusChallengerWon

\* C3: on an InProgress player ProgressGame invokes act exactly once, then
\* fetches the status even if act failed; when the fetch succeeds the cached
\* status and the return value are the fetched status, and the whole result
\* but the log is what it would be had act succeeded.
C3_ActErrorDoesNotAbort ==
    LastProgressActive =>
        /\ NumActCalls(last.calls) = 1
        /\ Len(last.calls) >= 2
        /\ last.calls[1].fn = "act"
        /\ last.calls[2].fn = "GetStatus"
        /\ ~last.env.statusErr =>
              /\ last.ret = last.env.status
              /\ Status(players[last.addr]) = last.env.status
        /\ LET ok == ProgressGame(last.pre, [last.env EXCEPT !.actErr = FALSE])
           IN /\ players[last.addr] = ok.player
              /\ last.ret = ok.ret
              /\ last.calls = ok.calls

\* act failed and the status fetched afterwards was terminal.
C3_Witness ==
    /\ LastProgressActive
    /\ last.env.actErr
    /\ Log("Error", "Error when acting on game") \in Range(last.logs)
    /\ ~last.env.statusErr
    /\ last.env.status = GameStatusDefenderWon

\* C4: the cached status of a player changes at most once, and only from
\* InProgress to another value; a status other than InProgress never changes.
C4_StatusChangesOnce ==
    [][\A a \in DOMAIN players :
          /\ a \in DOMAIN players'
          /\ changes'[a] <= 1
          /\ Status(players'[a]) # Status(players[a]) =>
                /\ Status(players[a]) = GameStatusInProgress
                /\ Status(players'[a]) # GameStatusInProgress
                /\ changes[a] = 0]_vars

\* A player that went from InProgress to ChallengerWon was progressed again
\* while the loader reported InProgress.
C4_Witness ==
    /\ LastIsProgress
    /\ changes[last.addr] = 1
    /\ last.pre.status = GameStatusChallengerWon
    /\ ~last.env.statusErr
    /\ last.env.status = GameStatusInProgress

\* The steps NewGamePlayer skips for a game that is already resolved.
SkippedWhenResolved ==
    {"GetMaxGameDepth", "creator", "prestateValidator", "NewFaultResponder",
     "NewAgent"}

\* C5: when NewGamePlayer fetches a status other than InProgress it returns
\* a player without fetching the depth, calling the creator, validating the
\* prestate, creating a responder or an agent; the player caches the fetched
\* status and its act can only return nil; that act is never invoked.
C5_ResolvedFastPath ==
    /\ (LastIsCtor /\ ~last.env.contractErr /\ ~last.env.statusErr
          /\ last.env.status # GameStatusInProgress) =>
        /\ Range(last.steps) \cap SkippedWhenResolved = {}
        /\ last.steps = <<"NewFaultDisputeGameContract", "GetStatus">>
        /\ last.err = nil
        /\ Len(last.player) = 1
        /\ Status(last.player[1]) = last.env.status
        /\ last.player[1].agreeWithProposedOutput = last.env.agree
        /\ ActResults(last.player[1].act) = {nil}
        /\ players[last.addr] = last.player[1]
    /\ \A a \in DOMAIN players :
          players[a].act = "noop" =>
              /\ actCalls[a] = 0
              /\ Status(players[a]) # GameStatusInProgress

\* A player was constructed for a resolved game although every later step of
\* the construction would have failed.
C5_Witness ==
    /\ LastIsCtor
    /\ ~last.env.contractErr /\ ~last.env.statusErr
    /\ last.env.status = GameStatusChallengerWon
    /\ last.env.depthErr /\ last.env.creatorErr /\ last.env.prestateErr
    /\ last.env.responderErr
    /\ last.addr \in DOMAIN players

\* The steps of NewGamePlayer for a game in progress, in the claimed order.
CtorOrder ==
    <<"NewFaultDisputeGameContract", "GetStatus", "GetMaxGameDepth", "creator",
      "prestateValidator", "NewFaultResponder", "NewAgent">>

\* The environment makes the k-th step of CtorOrder fail.
StepFails(env, k) ==
    CASE k = 1 -> env.contractErr
      [] k = 2 -> env.statusErr
      [] k = 3 -> env.depthErr
      [] k = 4 -> env.creatorErr
      [] k = 5 -> env.prestateErr
      [] k = 6 -> env.responderErr
      [] OTHER -> FALSE

\* C6: for a game in progress NewGamePlayer runs its steps in the order
\* status fetch, depth fetch, resource creation, prestate validation,
\* responder creation, agent creation; the first failing step ends the
\* construction with an error and without a player, and no later step runs.
\* After a failed prestate validation neither a responder nor an agent is
\* created and the game has no player.
C6_ConstructionOrder ==
    (LastIsCtor /\ (last.env.contractErr \/ last.env.statusErr
                      \/ last.env.status = GameStatusInProgress)) =>
        LET n == Len(last.steps)
        IN /\ n \in 1..Len(CtorOrder)
           /\ last.steps = SubSeq(CtorOrder, 1, n)
           /\ \A k \in 1..(n - 1) : ~StepFails(last.env, k)
           /\ n < Len(CtorOrder) =>
                 /\ StepFails(last.env, n)
                 /\ last.player = <<>>
                 /\ last.err # nil
                 /\ last.addr \notin DOMAIN players
                 /\ actCalls[last.addr] = 0
           /\ n = Len(CtorOrder) =>
                 /\ Len(last.player) = 1
                 /\ last.err = nil
                 /\ last.player[1].act = "agent"
                 /\ players[last.addr] = last.player[1]
           /\ (\A k \in 1..4 : ~StepFails(last.env, k)) /\ last.env.prestateErr =>
                 /\ "NewFaultResponder" \notin Range(last.steps)
                 /\ "NewAgent" \notin Range(last.steps)

\* The prestate validation failed for a game in progress after every earlier
\* step succeeded, while the responder could have been created.
C6_Witness ==
    /\ LastIsCtor
    /\ \A k \in 1..4 : ~StepFails(last.env, k)
    /\ last.env.status = GameStatusInProgress
    /\ last.env.prestateErr
    /\ ~last.env.responderErr
    /\ last.steps = SubSeq(CtorOrder, 1, 5)

\* The stance and the status for which the game counts as won.
IsWin(agree, status) ==
    \/ agree /\ status = GameStatusChallengerWon
    \/ ~agree /\ status = GameStatusDefenderWon

\* C7: when ProgressGame fetches a status other than InProgress it logs
\* exactly one outcome: "Game won" when the stance agrees and the status is
\* ChallengerWon or the stance disagrees and the status is DefenderWon,
\* "Game lost" for every other pairing.
C7_WinLoss ==
    (LastProgressActive /\ ~last.env.statusErr
       /\ last.env.status # GameStatusInProgress) =>
        LET win == IsWin(last.pre.agreeWithProposedOutput, last.env.status)
        IN /\ NumOutcomeLogs(last.logs) = 1
           /\ Log("Info", "Game won") \in Range(last.logs) <=> win
           /\ Log("Error", "Game lost") \in Range(last.logs) <=> ~win

\* A player that disagrees with the proposed output saw DefenderWon.
C7_Witness ==
    /\ LastProgressActive
    /\ ~last.env.statusErr
    /\ ~last.pre.agreeWithProposedOutput
    /\ last.env.status = GameStatusDefenderWon
    /\ Log("Info", "Game won") \in Range(last.logs)

\* GetStatus succeeded with InProgress and GetClaimCount failed in the last
\* ProgressGame call.
ClaimCountFailed ==
    /\ LastProgressActive
    /\ ~last.env.statusErr
    /\ last.env.status = GameStatusInProgress
    /\ last.env.countErr

\* C8 as stated: when GetStatus succeeds with InProgress and GetClaimCount
\* fails, ProgressGame returns InProgress, the cached status remains
\* InProgress and a warning is logged.
C8_ClaimCountFailureWarns ==
    ClaimCountFailed =>
        /\ last.ret = GameStatusInProgress
        /\ Status(players[last.addr]) = GameStatusInProgress
        /\ \E l \in Range(last.logs) : l.lvl = "Warn"

\* C8 amended: when GetStatus succeeds with InProgress and GetClaimCount
\* fails, ProgressGame returns InProgress, the cached status remains
\* InProgress and the failure is logged at error level, not as a warning.
C8_ClaimCountFailureLogsError ==
    ClaimCountFailed =>
        /\ last.ret = GameStatusInProgress
        /\ Status(players[last.addr]) = GameStatusInProgress
        /\ "GetClaimCount" \in Range(Fns(last.calls))
        /\ Log("Error", "Failed to get claim count for in progress game")
              \in Range(last.logs)
        /\ \A l \in Range(last.logs) : l.lvl # "Warn"
        /\ Log("Info", "Game info") \notin Range(last.logs)

\* GetClaimCount failed in a call in which act succeeded.
C8_Witness == ClaimCountFailed /\ ~last.env.actErr

\* C9: while no GetStatus call for the game has succeeded with a status
\* other than InProgress, the cached status is InProgress and every
\* ProgressGame call invokes act once more, whatever errors act, GetStatus
\* and GetClaimCount return; a ProgressGame call skips act only after such a
\* successful fetch.
C9_RecoverableErrorsNeverStop ==
    [][\A a \in DOMAIN players :
          /\ ~termSeen[a] => Status(players[a]) = GameStatusInProgress
          /\ progressCalls'[a] = progressCalls[a] + 1 =>
                /\ ~termSeen[a] => actCalls'[a] = actCalls[a] + 1
                /\ actCalls'[a] = actCalls[a] => termSeen[a]
                /\ ~termSeen'[a] => Status(players'[a]) = GameStatusInProgress]_vars

\* Every one of MaxCalls ProgressGame calls invoked act; in the last one
\* both act and GetStatus failed.
C9_Witness ==
    /\ LastProgressActive
    /\ progressCalls[last.addr] = MaxCalls
    /\ actCalls[last.addr] = MaxCalls
    /\ ~termSeen[last.addr]
    /\ last.env.actErr
    /\ last.env.statusErr

\* The caller's context was cancelled during one of the external calls the
\* last ProgressGame call made.
CancelledInFlight ==
    /\ LastIsProgress
    /\ last.env.cancelAt \in 1..Len(last.calls)

\* C10 as stated: when the context is cancelled while ProgressGame is in
\* flight, ProgressGame makes no further external call and the cached status
\* after the call is the value it had before the call.
C10_CancelAborts ==
    CancelledInFlight =>
        /\ \A i \in 1..Len(last.calls) : ~last.calls[i].ctxDone
        /\ Status(players[last.addr]) = last.pre.status

\* C10 amended: ProgressGame never inspects the context itself; after a
\* cancellation it still makes every remaining external call of the call
\* (GetStatus after act, GetClaimCount after a successful InProgress fetch),
\* handing it the cancelled context.  No partial state is left: the cached
\* status is the value it had before the call unless GetStatus succeeded in
\* this call, and then it is the fetched status; the returned value is the
\* cached status.
C10_CancelForwarded ==
    CancelledInFlight =>
        /\ Fns(last.calls) =
              <<"act", "GetStatus">> \o
              (IF ~last.env.statusErr /\ last.env.status = GameStatusInProgress
               THEN <<"GetClaimCount">> ELSE <<>>)
        /\ \A i \in 1..Len(last.calls) :
              last.calls[i].ctxDone <=> i > last.env.cancelAt
        /\ last.env.statusErr => Status(players[last.addr]) = last.pre.status
        /\ ~last.env.statusErr => Status(players[last.addr]) = last.env.status
        /\ last.ret = Status(players[last.addr])
        /\ players[last.addr] = [last.pre EXCEPT !.status = last.ret]

\* The context was cancelled during act; GetStatus and GetClaimCount were
\* still called, with the cancelled context.
C10_Witness ==
    /\ CancelledInFlight
    /\ last.env.cancelAt = 1
    /\ Len(last.calls) = 3
    /\ last.calls[2].ctxDone /\ last.calls[3].ctxDone

\* C11: players share no mutable state: a ProgressGame call on one player
\* changes neither the cached status, the stance nor the act of another
\* player, nor the number of times the other player's act was invoked.
C11_PlayersIndependent ==
    [][\A a \in Games, b \in DOMAIN players :
          (a # b /\ progressCalls'[a] = progressCalls[a] + 1) =>
              /\ b \in DOMAIN players'
              /\ Status(players'[b]) = Status(players[b])
              /\ players'[b].agreeWithProposedOutput =
                    players[b].agreeWithProposedOutput
              /\ players'[b].act = players[b].act
              /\ actCalls'[b] = actCalls[b]]_vars

\* One player saw its game end while the other player, of the opposite
\* stance and already progressed, is still InProgress.
C11_Witness ==
    /\ DOMAIN players = Games
    /\ LastProgressActive
    /\ last.ret # GameStatusInProgress
    /\ \E b \in Games \ {last.addr} :
          /\ Status(players[b]) = GameStatusInProgress
          /\ progressCalls[b] >= 1
          /\ players[b].agreeWithProposedOutput # last.pre.agreeWithProposedOutput

\* The moves among the calls of the last Agent.Act invocation.
LastMoves == {k \in 1..Len(lastAct) : IsMove(lastAct[k])}

\* The agent agrees with claim i of the ledger: the trace accessor's value at
\* its position is the value it asserts.
Agrees(i) == TraceValue(claimList[i].position) = claimList[i].value

\* C12: over any sequence of polling cycles the ledger accepts at most one
\* move of the agent against each claim, also when a trace, oracle or
\* responder failure made the agent retry the move in a later cycle; within
\* one cycle the agent hands at most one move per claim to the responder.
C12_OneMovePerClaim ==
    /\ \A i \in 1..MaxClaims : accepted[i] <= 1
    /\ \A i \in 1..Len(claimList) :
          Cardinality({j \in 1..Len(claimList) :
                          claimList[j].parent = i /\ claimList[j].byAgent})
            + (IF claimList[i].steppedByAgent THEN 1 ELSE 0) = accepted[i]
    /\ \A k, l \in LastMoves : lastAct[k].claim = lastAct[l].claim => k = l

\* The response to a claim failed in one cycle, the move was retried and
\* accepted, and a later cycle left the claim alone.
C12_Witness ==
    \E i \in 1..Len(claimList) :
        /\ i \in failedOn
        /\ accepted[i] = 1
        /\ lastAct # <<>>
        /\ \A k \in LastMoves : lastAct[k].claim # i

\* C13: the agent answers a claim at maxGameDepth with a step and never with
\* an attack or defend claim, it executes steps against such claims only,
\* and before it submits the step it has asked the oracle updater to publish
\* the data of that position.
C13_LeafStep ==
    \A k \in LastMoves :
        LET e == lastAct[k]
        IN /\ Depth(claimList[e.claim].position) = MaxGameDepth <=> e.ev = "Step"
           /\ e.ev = "Step" =>
                 \E j \in 1..(k - 1) :
                     lastAct[j] = Event("Publish", e.claim,
                                        claimList[e.claim].position, TRUE)

\* The agent executed a step against a claim at maxGameDepth.
C13_Witness ==
    \E k \in LastMoves :
        /\ lastAct[k].ev = "Step"
        /\ lastAct[k].ok
        /\ Depth(claimList[lastAct[k].claim].position) = MaxGameDepth
        /\ claimList[lastAct[k].claim].steppedByAgent

\* C14: the agent never attacks a claim whose asserted value is the trace
\* accessor's value at its position, neither with an attack claim nor with
\* an attacking step.
C14_NoAttackOnAgreed ==
    \A k \in LastMoves :
        Agrees(lastAct[k].claim) =>
            /\ lastAct[k].ev # "Attack"
            /\ ~lastAct[k].isAttack

\* The agent moved against two claims in one cycle: it defended one it
\* agrees with and attacked one it disagrees with.
C14_Witness ==
    \E k, l \in LastMoves :
        /\ Agrees(lastAct[k].claim) /\ lastAct[k].ev = "Defend"
        /\ ~Agrees(lastAct[l].claim) /\ lastAct[l].ev = "Attack"

\* C15: a ProgressGame call on an InProgress player makes its external calls
\* in a fixed order and at most once each: act, then GetStatus, then
\* GetClaimCount, the last one exactly when GetStatus succeeded with
\* InProgress.
C15_CallOrder ==
    LastProgressActive =>
        /\ Fns(last.calls) \in
              {<<"act", "GetStatus">>, <<"act", "GetStatus", "GetClaimCount">>}
        /\ "GetClaimCount" \in Range(Fns(last.calls)) <=>
              (~last.env.statusErr /\ last.env.status = GameStatusInProgress)

\* All three calls were made, in order, in a call in which act failed.
C15_Witness ==
    /\ LastProgressActive
    /\ last.env.actErr
    /\ Fns(last.calls) = <<"act", "GetStatus", "GetClaimCount">>

\* C16: on every path of ProgressGame the value it returns is the value
\* Status() reports right after the call.
C16_ReturnIsStatus ==
    LastIsProgress => last.ret = Status(players[last.addr])

\* ProgressGame returned a terminal status it had just fetched.
C16_Witness ==
    /\ LastProgressActive
    /\ ~last.env.statusErr
    /\ last.env.status = GameStatusChallengerWon
    /\ last.ret = GameStatusChallengerWon

\* C17: a player records a win or loss at most once, in exactly the
\* ProgressGame call in which its cached status goes from InProgress to
\* another value; a player constructed for a resolved game records none.
C17_OutcomeOnce ==
    [][\A a \in DOMAIN players :
          /\ outcomes'[a] <= 1
          /\ outcomes'[a] = outcomes[a] + 1 <=>
                (Status(players[a]) = GameStatusInProgress
                   /\ Status(players'[a]) # GameStatusInProgress)
          /\ outcomes'[a] \in {outcomes[a], outcomes[a] + 1}
          /\ players[a].act = "noop" => outcomes'[a] = 0]_vars

\* A player that recorded its outcome was progressed again while the loader
\* reported the opposite outcome.
C17_Witness ==
    /\ LastIsProgress
    /\ outcomes[last.addr] = 1
    /\ last.pre.status = GameStatusDefenderWon
    /\ ~last.env.statusErr
    /\ last.env.status = GameStatusChallengerWon

\* C18: when a GetStatus call of ProgressGame on an InProgress player
\* succeeds with a status other than InProgress, the cached status becomes
\* that status in this very call; from then on it keeps that first fetched
\* value and act is not invoked again.
C18_FirstTerminalSticks ==
    [][\A a \in DOMAIN players :
          /\ (~termSeen[a] /\ termSeen'[a]) =>
                /\ last'.op = "ProgressGame" /\ last'.addr = a
                /\ Status(players'[a]) = last'.env.status
                /\ Status(players'[a]) # GameStatusInProgress
          /\ termSeen[a] =>
                /\ Status(players[a]) # GameStatusInProgress
                /\ Status(players'[a]) = Status(players[a])
                /\ actCalls'[a] = actCalls[a]]_vars

\* A player whose act ran twice saw its game end in the second call and was
\* then progressed again while the loader reported InProgress.
C18_Witness ==
    /\ LastIsProgress
    /\ termSeen[last.addr]
    /\ changes[last.addr] = 1
    /\ actCalls[last.addr] = 2
    /\ progressCalls[last.addr] = 3
    /\ last.calls = <<>>
    /\ ~last.env.statusErr
    /\ last.env.status = GameStatusInProgress

====
